---- MODULE Spec2Model ----
(***************************************************************************)
(* Beat-Storm playback page (Home component): the session lifecycle of     *)
(* generateBeat / togglePlayback / cleanupAudio against the Tone.js        *)
(* Transport, and the routing of scheduled notes to the six synth voices.  *)
(*                                                                         *)
(* Times and durations are in milliseconds (0.03 s = 30), velocities in    *)
(* percent.  Every `await` is a suspension point: the handler is split    *)
(* into one action per segment between two awaits, and segments of        *)
(* different handler invocations interleave freely.                        *)
(***************************************************************************)
EXTENDS Integers, Sequences, FiniteSets, TLC

\* ------------------------------------------------------------------ bounds
\* Total number of generateBeat invocations (Generate clicks) in a run.
MaxGens == 2
\* Number of togglePlayback invocations that may be suspended at once.
MaxToggles == 2

\* --------------------------------------------------------- program constants
\* Math.max(note.duration, 0.03): the hi-hat duration floor, in ms.
HatMinDur == 30
\* useState(90): the tempo the page starts with.
DefaultBpm == 90

\* ------------------------------------------------------------------- scores
Note(midi, name, duration, time, velocity) ==
    [midi |-> midi, name |-> name, duration |-> duration, time |-> time,
     velocity |-> velocity]

Track(channel, notes) == [channel |-> channel, notes |-> notes]

\* The parsed artifacts the generation endpoint may return (new Midi(buffer)).
\*  1: one drum track, a kick then a very short closed hi-hat.
\*  2: bass, two simultaneous chord notes, drums (an unmapped percussion
\*     pitch, an open hi-hat), a track on another channel whose first note
\*     outlasts its last one, and an empty track; the last-ending note is on
\*     the chord track.
Scores ==
    << [tracks |-> << Track(9, << Note(36, "C2", 100, 0, 90),
                                  Note(42, "F#2", 10, 500, 60) >>) >>],
       [tracks |-> << Track(0, << Note(40, "E2", 500, 1000, 80) >>),
                      Track(2, << Note(60, "C4", 700, 1000, 70),
                                  Note(64, "E4", 700, 1000, 70) >>),
                      Track(9, << Note(38, "D2", 50, 250, 100),
                                  Note(46, "A#2", 200, 750, 50) >>),
                      Track(1, << Note(72, "C5", 900, 0, 40),
                                  Note(74, "D5", 100, 400, 40) >>),
                      Track(3, << >>) >>] >>

ScoreIds == 1..Len(Scores)

Max(a, b) == IF a >= b THEN a ELSE b

RECURSIVE SetMax(_)
SetMax(S) ==
    IF S = {} THEN 0
    ELSE LET x == CHOOSE y \in S : TRUE IN Max(x, SetMax(S \ {x}))

Range(f) == { f[i] : i \in DOMAIN f }

\* midi.tracks.forEach(track => track.notes.forEach(note => ...)): the
\* (track index, note index) pairs the double loop visits.
NoteIdx(midi) ==
    UNION { { <<i, j>> : j \in 1..Len(midi.tracks[i].notes) } :
              i \in 1..Len(midi.tracks) }

\* Midi.duration of @tonejs/midi, read at `Tone.Transport.loopEnd =
\* midi.duration`: the latest note end over all tracks (0 without notes).
MidiDuration(midi) ==
    SetMax({ midi.tracks[p[1]].notes[p[2]].time +
             midi.tracks[p[1]].notes[p[2]].duration : p \in NoteIdx(midi) })

\* -------------------------------------------------------------------- state
VARIABLES
    transport,    \* Tone.Transport: state, loop, loopStart, loopEnd, bpm
    events,       \* the callbacks registered by Tone.Transport.schedule
    synths,       \* synths.current
    voices,       \* every synth ever constructed, as <<generation, kind>>
    disposed,     \* the synths dispose() has been called on
    redisposed,   \* the synths dispose() has been called on more than once
    isGenerating, isPlaying, isBeatReady, midiUrl, songTitle,  \* useState
    mounted,      \* the component is mounted
    gens,         \* the generateBeat invocations and where each is suspended
    toggles,      \* suspended togglePlayback invocations, by captured isPlaying
    lastConfig,   \* the latest setupSynthsAndSchedule: its score, what it
                  \* installed, and whether cleanupAudio has run since
    lastOp,       \* the handler segment that ran last (with the score it
                  \* scheduled, if it is setupSynthsAndSchedule)
    lastFire      \* the dispatch the last step made, if it was one

vars == << transport, events, synths, voices, disposed, redisposed,
           isGenerating, isPlaying, isBeatReady, midiUrl, songTitle, mounted,
           gens, toggles, lastConfig, lastOp, lastFire >>

GenIds == 1..MaxGens
Kinds == { "Kick", "HiHat", "Bass", "Melody", "Snare", "Chord" }
NoName == "-"
NoFire == [gen |-> 0]
\* A handler segment: `again` marks a setupSynthsAndSchedule of the score of
\* the previous one with a cleanupAudio in between, `rep` a stop or cleanup
\* that directly follows one (cleanupAudio stops the transport too).
Op(op, g) ==
    [op |-> op, gen |-> g, score |-> 0, again |-> FALSE,
     rep |-> IF op \in {"cleanup", "stop"} /\ lastOp.op = "cleanup"
             THEN "cleanup"
             ELSE IF op = "stop" /\ lastOp.op = "stop" THEN "stop" ELSE "no"]
NoConfig == [score |-> 0]

\* A React state setter: an update of an unmounted component is dropped.
SetState(cur, new) == IF mounted THEN new ELSE cur

Init ==
    /\ transport = [state |-> "stopped", loop |-> FALSE, loopStart |-> 0,
                    loopEnd |-> 8000, bpm |-> 120]
    /\ events = {}
    /\ synths = << >>
    /\ voices = {}
    /\ disposed = {}
    /\ redisposed = {}
    /\ isGenerating = FALSE
    /\ isPlaying = FALSE
    /\ isBeatReady = FALSE
    /\ midiUrl = 0
    /\ songTitle = 0
    /\ mounted = TRUE
    /\ gens = [g \in GenIds |-> [pc |-> "idle", alerts |-> 0]]
    /\ toggles = [b \in BOOLEAN |-> 0]
    /\ lastConfig = NoConfig
    /\ lastOp = [op |-> "init", gen |-> 0, score |-> 0, again |-> FALSE, rep |-> "no"]
    /\ lastFire = NoFire

\* --------------------------------------------------------------- operations
\* cleanupAudio without Tone.Transport.cancel(): the registrations stay.
CleanupAudioNoCancel ==
    /\ transport' = [transport EXCEPT !.state = "stopped"]
    /\ events' = events
    /\ disposed' = disposed \cup Range(synths)
    /\ redisposed' = redisposed \cup (Range(synths) \cap disposed)
    /\ synths' = << >>
    /\ isPlaying' = SetState(isPlaying, FALSE)
    /\ lastConfig' = IF lastConfig = NoConfig THEN lastConfig
                     ELSE [lastConfig EXCEPT !.cleaned = TRUE]

\* cleanupAudio without `synths.current = []`: the disposed synths stay listed.
CleanupAudioKeepsList ==
    /\ transport' = [transport EXCEPT !.state = "stopped"]
    /\ events' = {}
    /\ disposed' = disposed \cup Range(synths)
    /\ redisposed' = redisposed \cup (Range(synths) \cap disposed)
    /\ synths' = synths
    /\ isPlaying' = SetState(isPlaying, FALSE)
    /\ lastConfig' = IF lastConfig = NoConfig THEN lastConfig
                     ELSE [lastConfig EXCEPT !.cleaned = TRUE]

\* cleanupAudio without setIsPlaying(false).
CleanupAudioKeepsPlaying ==
    /\ transport' = [transport EXCEPT !.state = "stopped"]
    /\ events' = {}
    /\ disposed' = disposed \cup Range(synths)
    /\ redisposed' = redisposed \cup (Range(synths) \cap disposed)
    /\ synths' = << >>
    /\ isPlaying' = isPlaying
    /\ lastConfig' = IF lastConfig = NoConfig THEN lastConfig
                     ELSE [lastConfig EXCEPT !.cleaned = TRUE]

\* cleanupAudio
CleanupAudio ==
    /\ transport' = [transport EXCEPT !.state = "stopped"]
    /\ events' = {}
    /\ disposed' = disposed \cup Range(synths)
    /\ redisposed' = redisposed \cup (Range(synths) \cap disposed)
    /\ synths' = << >>
    /\ isPlaying' = SetState(isPlaying, FALSE)
    /\ lastConfig' = IF lastConfig = NoConfig THEN lastConfig
                     ELSE [lastConfig EXCEPT !.cleaned = TRUE]

\* One synth.triggerAttackRelease(...) call.
Trig(g, kind, name, duration, velocity) ==
    [voice |-> <<g, kind>>, name |-> name, duration |-> duration,
     velocity |-> velocity]

\* Callback with the percussion fallback missing: a channel-9 pitch other than
\* 36, 42, 46 triggers nothing.
CallbackDropsUnmapped(g, channel, note) ==
    IF channel = 9
    THEN IF note.midi = 36
         THEN << Trig(g, "Kick", note.name, note.duration, note.velocity) >>
         ELSE IF note.midi = 42 \/ note.midi = 46
              THEN << Trig(g, "HiHat", note.name,
                           Max(note.duration, HatMinDur), note.velocity) >>
              ELSE << >>
    ELSE IF channel = 0
         THEN << Trig(g, "Bass", note.name, note.duration, note.velocity) >>
         ELSE IF channel = 2
              THEN << Trig(g, "Chord", note.name, note.duration, note.velocity) >>
              ELSE << Trig(g, "Melody", note.name, note.duration, note.velocity) >>

\* Callback with the hi-hat floor missing: the note's own duration is passed.
CallbackNoClamp(g, channel, note) ==
    IF channel = 9
    THEN IF note.midi = 36
         THEN << Trig(g, "Kick", note.name, note.duration, note.velocity) >>
         ELSE IF note.midi = 42 \/ note.midi = 46
              THEN << Trig(g, "HiHat", note.name, note.duration, note.velocity) >>
              ELSE << Trig(g, "Snare", NoName, note.duration, note.velocity) >>
    ELSE IF channel = 0
         THEN << Trig(g, "Bass", note.name, note.duration, note.velocity) >>
         ELSE IF channel = 2
              THEN << Trig(g, "Chord", note.name, note.duration, note.velocity) >>
              ELSE << Trig(g, "Melody", note.name, note.duration, note.velocity) >>

\* Callback with the snare triggered like the pitched voices, by note name.
CallbackSnareNamed(g, channel, note) ==
    IF channel = 9
    THEN IF note.midi = 36
         THEN << Trig(g, "Kick", note.name, note.duration, note.velocity) >>
         ELSE IF note.midi = 42 \/ note.midi = 46
              THEN << Trig(g, "HiHat", note.name,
                           Max(note.duration, HatMinDur), note.velocity) >>
              ELSE << Trig(g, "Snare", note.name, note.duration, note.velocity) >>
    ELSE IF channel = 0
         THEN << Trig(g, "Bass", note.name, note.duration, note.velocity) >>
         ELSE IF channel = 2
              THEN << Trig(g, "Chord", note.name, note.duration, note.velocity) >>
              ELSE << Trig(g, "Melody", note.name, note.duration, note.velocity) >>

\* The callback handed to Tone.Transport.schedule for one note of a track of
\* generation g: the trigger calls one dispatch of it makes.
Callback(g, channel, note) ==
    IF channel = 9
    THEN IF note.midi = 36
         THEN << Trig(g, "Kick", note.name, note.duration, note.velocity) >>
         ELSE IF note.midi = 42 \/ note.midi = 46
              THEN << Trig(g, "HiHat", note.name,
                           Max(note.duration, HatMinDur), note.velocity) >>
              ELSE << Trig(g, "Snare", NoName, note.duration, note.velocity) >>
    ELSE IF channel = 0
         THEN << Trig(g, "Bass", note.name, note.duration, note.velocity) >>
         ELSE IF channel = 2
              THEN << Trig(g, "Chord", note.name, note.duration, note.velocity) >>
              ELSE << Trig(g, "Melody", note.name, note.duration, note.velocity) >>

\* Tone.Transport.schedule(callback, note.time) for note j of track i.
Registration(g, midi, i, j) ==
    [gen |-> g, ti |-> i, ni |-> j, time |-> midi.tracks[i].notes[j].time,
     channel |-> midi.tracks[i].channel, note |-> midi.tracks[i].notes[j]]

\* ScheduleLoop with the loop closed at the latest note start instead of the
\* latest note end.
ScheduleLoopAtLastStart(midi) ==
    [transport EXCEPT !.bpm = DefaultBpm, !.loop = TRUE, !.loopStart = 0,
                      !.loopEnd = SetMax({ midi.tracks[p[1]].notes[p[2]].time :
                                             p \in NoteIdx(midi) })]

\* Tone.Transport.bpm.value = bpm; loop = true; loopStart = 0;
\* loopEnd = midi.duration
ScheduleLoop(midi) ==
    [transport EXCEPT !.bpm = DefaultBpm, !.loop = TRUE, !.loopStart = 0,
                      !.loopEnd = MidiDuration(midi)]

\* The registrations the double forEach installs.
ScheduleNotes(g, midi) ==
    { Registration(g, midi, p[1], p[2]) : p \in NoteIdx(midi) }

\* A registration without its generation: loop-local time, target voice kind
\* and trigger payload.
RegView(e) ==
    [ti |-> e.ti, ni |-> e.ni, time |-> e.time,
     calls |-> [k \in DOMAIN Callback(e.gen, e.channel, e.note) |->
                  LET c == Callback(e.gen, e.channel, e.note)[k]
                  IN  [kind |-> c.voice[2], name |-> c.name,
                       duration |-> c.duration, velocity |-> c.velocity]]]

\* setupSynthsAndSchedule(midi), called by generation g
SetupSynthsAndSchedule(g, midi) ==
    /\ voices' = voices \cup { <<g, k>> : k \in Kinds }
    /\ synths' = << <<g, "Kick">>, <<g, "HiHat">>, <<g, "Bass">>,
                    <<g, "Melody">>, <<g, "Snare">>, <<g, "Chord">> >>
    /\ transport' = ScheduleLoop(midi)
    /\ events' = events \cup ScheduleNotes(g, midi)

\* The next generateBeat invocation.
NextGen == CHOOSE g \in GenIds : gens[g].pc = "idle" /\
                                 \A h \in GenIds : h < g => gens[h].pc # "idle"

\* Click on Generate (enabled unless isGenerating): generateBeat up to
\* `await initializeAudio()`.
GenerateClick ==
    /\ mounted
    /\ ~isGenerating
    /\ \E g \in GenIds : gens[g].pc = "idle"
    /\ CleanupAudio
    /\ gens' = [gens EXCEPT ![NextGen].pc = "awaitStart"]
    /\ lastOp' = Op("cleanup", NextGen)
    /\ lastFire' = NoFire
    /\ UNCHANGED << voices, isGenerating, isBeatReady, midiUrl, songTitle,
                    mounted, toggles >>

\* Tone.start() resolves: the four setters, then the fetch is issued.
GenStartResolved(g) ==
    /\ gens[g].pc = "awaitStart"
    /\ isGenerating' = SetState(isGenerating, TRUE)
    /\ isBeatReady' = SetState(isBeatReady, FALSE)
    /\ midiUrl' = SetState(midiUrl, 0)
    /\ songTitle' = SetState(songTitle, 0)
    /\ gens' = [gens EXCEPT ![g].pc = "awaitFetch"]
    /\ lastOp' = Op("other", g)
    /\ lastFire' = NoFire
    /\ UNCHANGED << redisposed, lastConfig, transport, events, synths, voices, disposed, isPlaying,
                    mounted, toggles >>

\* Tone.start() rejects: the await is outside the try, so generateBeat's
\* promise rejects and nothing else runs.
GenStartRejected(g) ==
    /\ gens[g].pc = "awaitStart"
    /\ gens' = [gens EXCEPT ![g].pc = "rejected"]
    /\ lastOp' = Op("rejected", g)
    /\ lastFire' = NoFire
    /\ UNCHANGED << redisposed, lastConfig, transport, events, synths, voices, disposed, isGenerating,
                    isPlaying, isBeatReady, midiUrl, songTitle, mounted,
                    toggles >>

\* catch (error) { console.error; alert } finally { setIsGenerating(false) }
CatchAndFinally(g) ==
    /\ gens' = [gens EXCEPT ![g].pc = "caught", ![g].alerts = @ + 1]
    /\ isGenerating' = SetState(isGenerating, FALSE)
    /\ lastOp' = Op("caught", g)
    /\ lastFire' = NoFire

\* The fetch settles: rejected, or resolved with response.ok false (throw), or
\* resolved with response.ok true (title set, response.blob() awaited).  The
\* title is the response's file name, which does not identify the
\* generation: songTitle is 0 (null) or 1 (a title).
GenFetchSettled(g) ==
    /\ gens[g].pc = "awaitFetch"
    /\ \E outcome \in { "rejected", "notOk", "ok" } :
         IF outcome = "ok"
         THEN /\ songTitle' = SetState(songTitle, 1)
              /\ gens' = [gens EXCEPT ![g].pc = "awaitBlob"]
              /\ lastOp' = Op("other", g)
              /\ lastFire' = NoFire
              /\ UNCHANGED isGenerating
         ELSE /\ CatchAndFinally(g)
              /\ UNCHANGED songTitle
    /\ UNCHANGED << redisposed, lastConfig, transport, events, synths, voices, disposed, isPlaying,
                    isBeatReady, midiUrl, mounted, toggles >>

\* response.blob() settles: createObjectURL + setMidiUrl, then
\* blob.arrayBuffer() is awaited; or the catch path.
GenBlobSettled(g) ==
    /\ gens[g].pc = "awaitBlob"
    /\ \E ok \in BOOLEAN :
         IF ok
         THEN /\ midiUrl' = SetState(midiUrl, g)
              /\ gens' = [gens EXCEPT ![g].pc = "awaitBuffer"]
              /\ lastOp' = Op("other", g)
              /\ lastFire' = NoFire
              /\ UNCHANGED isGenerating
         ELSE /\ CatchAndFinally(g)
              /\ UNCHANGED midiUrl
    /\ UNCHANGED << redisposed, lastConfig, transport, events, synths, voices, disposed, isPlaying,
                    isBeatReady, songTitle, mounted, toggles >>

\* blob.arrayBuffer() resolves and new Midi(arrayBuffer) parses score s:
\* setupSynthsAndSchedule, setIsBeatReady(true), finally.
GenParsed(g, s) ==
    /\ gens[g].pc = "awaitBuffer"
    /\ SetupSynthsAndSchedule(g, Scores[s])
    /\ isBeatReady' = SetState(isBeatReady, TRUE)
    /\ isGenerating' = SetState(isGenerating, FALSE)
    /\ gens' = [gens EXCEPT ![g].pc = "ok"]
    /\ lastConfig' = [score |-> s, cleaned |-> FALSE,
                      view |-> { RegView(e) : e \in ScheduleNotes(g, Scores[s]) },
                      count |-> Cardinality(ScheduleNotes(g, Scores[s]))]
    /\ lastOp' = [op |-> "configured", gen |-> g, score |-> s, rep |-> "no",
                  again |-> lastConfig # NoConfig /\ lastConfig.score = s
                            /\ lastConfig.cleaned]
    /\ lastFire' = NoFire
    /\ UNCHANGED << redisposed, disposed, isPlaying, midiUrl, songTitle, mounted, toggles >>

\* blob.arrayBuffer() rejects or new Midi(arrayBuffer) throws: the catch path.
GenParseFailed(g) ==
    /\ gens[g].pc = "awaitBuffer"
    /\ CatchAndFinally(g)
    /\ UNCHANGED << redisposed, lastConfig, transport, events, synths, voices, disposed, isPlaying,
                    isBeatReady, midiUrl, songTitle, mounted, toggles >>

TogglesPending == toggles[TRUE] + toggles[FALSE]

\* Click on Play/Stop (enabled when isBeatReady): togglePlayback up to
\* `await Tone.start()`, with isPlaying as rendered captured in its closure.
ToggleClick ==
    /\ mounted
    /\ isBeatReady
    /\ TogglesPending < MaxToggles
    /\ toggles' = [toggles EXCEPT ![isPlaying] = @ + 1]
    /\ lastOp' = Op("other", 0)
    /\ lastFire' = NoFire
    /\ UNCHANGED << redisposed, lastConfig, transport, events, synths, voices, disposed, isGenerating,
                    isPlaying, isBeatReady, midiUrl, songTitle, mounted, gens >>

\* togglePlayback after the await, for an invocation that captured `was`.
ToggleResumed(was) ==
    /\ toggles[was] > 0
    /\ toggles' = [toggles EXCEPT ![was] = @ - 1]
    /\ IF was
       THEN /\ transport' = [transport EXCEPT !.state = "stopped"]
            /\ isPlaying' = SetState(isPlaying, FALSE)
       ELSE /\ transport' = [transport EXCEPT !.state = "started"]
            /\ isPlaying' = SetState(isPlaying, TRUE)
    /\ lastOp' = Op(IF was THEN "stop" ELSE "start", 0)
    /\ lastFire' = NoFire
    /\ UNCHANGED << redisposed, lastConfig, events, synths, voices, disposed, isGenerating,
                    isBeatReady, midiUrl, songTitle, mounted, gens >>

\* Tone.start() rejects for a suspended togglePlayback: its promise rejects
\* and neither branch runs.
ToggleStartRejected(was) ==
    /\ toggles[was] > 0
    /\ toggles' = [toggles EXCEPT ![was] = @ - 1]
    /\ lastOp' = Op("other", 0)
    /\ lastFire' = NoFire
    /\ UNCHANGED << transport, events, synths, voices, disposed, redisposed,
                    isGenerating, isPlaying, isBeatReady, midiUrl, songTitle,
                    mounted, gens, lastConfig >>

\* The component unmounts: the effect's cleanup runs cleanupAudio.
Unmount ==
    /\ mounted
    /\ CleanupAudio
    /\ mounted' = FALSE
    /\ lastOp' = Op("cleanup", 0)
    /\ lastFire' = NoFire
    /\ UNCHANGED << voices, isGenerating, isBeatReady, midiUrl, songTitle,
                    gens, toggles >>

\* Click on Download (enabled when isBeatReady): downloadBeat returns at once
\* without a midiUrl, else hands midiUrl to the browser as it is.
DownloadBeat ==
    /\ mounted
    /\ isBeatReady
    /\ lastOp' = Op(IF midiUrl = 0 THEN "other" ELSE "download", midiUrl)
    /\ lastFire' = NoFire
    /\ UNCHANGED << transport, events, synths, voices, disposed, redisposed,
                    isGenerating, isPlaying, isBeatReady, midiUrl, songTitle,
                    mounted, gens, toggles, lastConfig >>

\* The started, looping transport reaches the time of registration e, which
\* lies inside the loop, and calls it.
Dispatch(e) ==
    /\ transport.state = "started"
    /\ e \in events
    /\ transport.loop =>
         (transport.loopStart <= e.time /\ e.time < transport.loopEnd)
    /\ lastFire' = [gen |-> e.gen, ti |-> e.ti, ni |-> e.ni, at |-> e.time,
                    channel |-> e.channel, note |-> e.note,
                    calls |-> Callback(e.gen, e.channel, e.note)]
    /\ lastOp' = Op("other", 0)
    /\ UNCHANGED << redisposed, lastConfig, transport, events, synths, voices, disposed, isGenerating,
                    isPlaying, isBeatReady, midiUrl, songTitle, mounted, gens,
                    toggles >>

\* The transport's clock: any installed registration may come due.
DispatchAny == \E e \in events : Dispatch(e)

Next ==
    \/ GenerateClick
    \/ \E g \in GenIds : GenStartResolved(g)
    \/ \E g \in GenIds : GenStartRejected(g)
    \/ \E g \in GenIds : GenFetchSettled(g)
    \/ \E g \in GenIds : GenBlobSettled(g)
    \/ \E g \in GenIds, s \in ScoreIds : GenParsed(g, s)
    \/ \E g \in GenIds : GenParseFailed(g)
    \/ ToggleClick
    \/ \E was \in BOOLEAN : ToggleResumed(was)
    \/ \E was \in BOOLEAN : ToggleStartRejected(was)
    \/ Unmount
    \/ DownloadBeat
    \/ DispatchAny

Spec == Init /\ [][Next]_vars

\* Every registration any generation can install.
AllRegs == UNION { ScheduleNotes(g, Scores[i]) : g \in GenIds, i \in ScoreIds }

\* The transport's clock sweeps the loop again and again while it is started:
\* a registration that stays due is called.
LiveSpec == Spec /\ \A r \in AllRegs : WF_vars(Dispatch(r))

\* ------------------------------------------------------------------- claims
Live == voices \ disposed
Failed(op) == op = "caught" \/ op = "rejected"
NotesOf(s) == { Scores[s].tracks[p[1]].notes[p[2]] : p \in NoteIdx(Scores[s]) }
NoteEnds(s) == { n.time + n.duration : n \in NotesOf(s) }

\* C1: the transport never holds registrations of two different generations
\* at once, and a registration that fires is never of an earlier generation
\* than one whose registrations are installed.
C1_SessionExclusivity ==
    /\ \A e1, e2 \in events : e1.gen = e2.gen
    /\ lastFire # NoFire => \A e \in events : e.gen <= lastFire.gen

\* C2: every voice created and not yet disposed is a member of synths.current,
\* which holds at most the six voices of one generation.
C2_OneLiveVoicePool ==
    /\ Live \subseteq Range(synths)
    /\ \A v1, v2 \in Live : v1[1] = v2[1]
    /\ Cardinality(Live) <= 6

\* C3: right after cleanupAudio has run (on a Generate click or on unmount)
\* the transport is stopped, no registration is installed, synths.current is
\* empty and every voice ever created is disposed.
C3_CleanupAudioPost ==
    lastOp.op = "cleanup" =>
        /\ transport.state = "stopped"
        /\ events = {}
        /\ synths = << >>
        /\ Live = {}

\* C4: when a generation fails (at audio start, at the fetch, at the blob or at
\* parsing), the system is left clean: no live voice, no registration, and
\* the transport not playing.
C4_FailureLeavesClean ==
    Failed(lastOp.op) =>
        /\ Live = {}
        /\ events = {}
        /\ transport.state = "stopped"

\* C5: every failed generation has surfaced exactly one error (one alert),
\* whichever step failed.
C5_OneErrorPerFailure ==
    \A g \in GenIds : Failed(gens[g].pc) => gens[g].alerts = 1

\* C6: right after a generation has failed, the playback controls are
\* disabled (isBeatReady is false).
C6_FailureDisablesPlayback ==
    (mounted /\ Failed(lastOp.op)) => ~isBeatReady

\* The routing table of the specification, written out.
TableVoice(channel, midi) ==
    CASE channel = 9 /\ midi = 36 -> "Kick"
      [] channel = 9 /\ midi \in {42, 46} -> "HiHat"
      [] channel = 9 /\ midi \notin {36, 42, 46} -> "Snare"
      [] channel = 0 -> "Bass"
      [] channel = 2 -> "Chord"
      [] OTHER -> "Melody"

RoutedPerTable(g, channel, note, calls) ==
    /\ Len(calls) = 1
    /\ calls[1].voice = << g, TableVoice(channel, note.midi) >>

\* C7: every registered note routes to exactly one voice, the one the table
\* gives for its channel and pitch, and each dispatch of a registration makes
\* exactly one trigger call, on that voice.
C7_RoutingTotal ==
    /\ \A e \in events :
         RoutedPerTable(e.gen, e.channel, e.note,
                        Callback(e.gen, e.channel, e.note))
    /\ lastFire # NoFire =>
         RoutedPerTable(lastFire.gen, lastFire.channel, lastFire.note,
                        lastFire.calls)

\* C7 witness: an unmapped percussion pitch was dispatched and went to Snare.
C7_Witness ==
    /\ lastFire # NoFire
    /\ lastFire.channel = 9
    /\ lastFire.note.midi \notin {36, 42, 46}
    /\ Len(lastFire.calls) = 1
    /\ lastFire.calls[1].voice[2] = "Snare"

\* C8: a dispatch to HiHat passes max(note duration, 30 ms), hence at least
\* 30 ms; a dispatch to any other voice passes the note's own duration.
C8_HiHatClamp ==
    lastFire # NoFire =>
        \A k \in 1..Len(lastFire.calls) :
            LET c == lastFire.calls[k]
                d == lastFire.note.duration
            IN  IF c.voice[2] = "HiHat"
                THEN c.duration >= 30 /\ c.duration >= d
                     /\ (c.duration = 30 \/ c.duration = d)
                ELSE c.duration = d

\* C8 witness: the hi-hat of 10 ms at 500 ms was fired with 30 ms.
C8_Witness ==
    /\ lastFire # NoFire
    /\ lastFire.note.midi = 42
    /\ lastFire.note.duration = 10
    /\ lastFire.at = 500
    /\ lastFire.calls[1].voice[2] = "HiHat"
    /\ lastFire.calls[1].duration = 30

\* C9: right after setupSynthsAndSchedule the transport loops from 0 to the
\* latest note end of the score: no note ends after loopEnd and some note ends
\* exactly at it.
C9_LoopEndIsLatestNoteEnd ==
    lastOp.op = "configured" =>
        LET s == lastOp.score
        IN  /\ transport.loop
            /\ transport.loopStart = 0
            /\ \A x \in NoteEnds(s) : transport.loopEnd >= x
            /\ transport.loopEnd \in NoteEnds(s)

\* C9 witness: score 2 was configured, whose last-ending note (1700 ms) is on
\* the chord track while its drum track ends at 950 ms.
C9_Witness ==
    /\ lastOp.op = "configured"
    /\ lastOp.score = 2
    /\ transport.loopEnd = 1700

\* C10: right after setupSynthsAndSchedule the number of registrations on the
\* transport equals the number of notes of the score just scheduled.
C10_OneRegistrationPerNote ==
    lastOp.op = "configured" =>
        Cardinality(events) = Cardinality(NoteIdx(Scores[lastOp.score]))

\* No generateBeat and no togglePlayback invocation is suspended at an await.
Quiescent ==
    /\ \A g \in GenIds : gens[g].pc \in {"idle", "ok", "caught", "rejected"}
    /\ TogglesPending = 0

\* What cleanupAudio and Tone.Transport.stop() act on.
Audio == << transport, events, synths, voices, disposed, redisposed,
            isPlaying >>

\* C11: when setupSynthsAndSchedule runs for the score of the previous
\* setupSynthsAndSchedule with a cleanupAudio in between, the transport then
\* holds exactly the registrations the previous one installed: same count,
\* times, voice kinds and payloads.
C11_RoundTrip ==
    [][ (lastConfig # NoConfig /\ lastConfig.cleaned
         /\ lastOp'.op = "configured" /\ lastOp'.again
         /\ lastOp'.score = lastConfig.score)
        => /\ { RegView(e) : e \in events' } = lastConfig.view
           /\ Cardinality(events') = lastConfig.count ]_vars

\* C11 witness: the seven-note score was scheduled, cleaned up and scheduled
\* again.
C11_Witness ==
    /\ lastOp.op = "configured"
    /\ lastOp.again
    /\ lastOp.score = 2
    /\ Cardinality(events) = 7

\* C12: a stop or cleanupAudio that directly follows a cleanupAudio, and a
\* stop that directly follows a stop, change nothing of the audio state and
\* dispose no synth a second time.
C12_Idempotent ==
    [][ ( \/ (lastOp.op = "cleanup" /\ lastOp'.op \in {"cleanup", "stop"})
          \/ (lastOp.op = "stop" /\ lastOp'.op = "stop") )
        => (Audio' = Audio /\ redisposed' = {}) ]_vars

\* C12 witness: with a session's synths created, stop ran directly after stop.
C12_Witness ==
    /\ lastOp.op = "stop"
    /\ lastOp.rep = "stop"
    /\ voices # {}

\* C13: the transport is started, and isPlaying is true, only while a
\* session is configured (synths.current holds its voices).
C13_NoStartUnconfigured ==
    /\ transport.state = "started" => synths # << >>
    /\ (mounted /\ isPlaying) => synths # << >>

\* C14: a registration that stays installed on a transport that stays
\* started is dispatched again and again.
C14_LoopingLiveness ==
    \A r \in AllRegs :
        <>[](transport.state = "started" /\ r \in events)
        => []<>(lastFire # NoFire /\ lastFire.gen = r.gen
                /\ lastFire.ti = r.ti /\ lastFire.ni = r.ni)

\* C15: right after setupSynthsAndSchedule every registration it installed
\* has its time in [0, loopEnd) of the loop it set.
C15_RegistrationInLoop ==
    lastOp.op = "configured" =>
        \A e \in events :
            e.gen = lastOp.gen => (0 <= e.time /\ e.time < transport.loopEnd)

\* C15 witness: the seven-note score was scheduled; its latest start is 1000
\* and the loop ends at 1700.
C15_Witness ==
    /\ lastOp.op = "configured"
    /\ transport.loopEnd = 1700
    /\ \E e \in events : e.gen = lastOp.gen /\ e.time = 1000

\* C16: a dispatch to Snare carries no note name; a dispatch to Kick, Bass,
\* Chord or Melody carries the note's own name; every dispatch carries the
\* note's own velocity.
C16_TriggerPayload ==
    lastFire # NoFire =>
        \A k \in 1..Len(lastFire.calls) :
            LET c == lastFire.calls[k]
            IN  /\ c.velocity = lastFire.note.velocity
                /\ c.voice[2] = "Snare" => c.name = NoName
                /\ c.voice[2] \in {"Kick", "Bass", "Chord", "Melody"}
                     => c.name = lastFire.note.name

\* C16 witness: the unmapped percussion note D2 went to Snare without a name
\* and with its velocity.
C16_Witness ==
    /\ lastFire # NoFire
    /\ lastFire.note.name = "D2"
    /\ Len(lastFire.calls) = 1
    /\ lastFire.calls[1].voice[2] = "Snare"
    /\ lastFire.calls[1].name = NoName
    /\ lastFire.calls[1].velocity = 100

\* C17: while the component is mounted and no handler is suspended at an
\* await, isPlaying is true exactly when the transport is started.
C17_IsPlayingMatchesTransport ==
    (mounted /\ Quiescent) => (isPlaying <=> transport.state = "started")

\* C17 witness: a togglePlayback that resumed after a later cleanupAudio has
\* started the transport with no session; flag and transport still agree.
C17_Witness ==
    /\ mounted
    /\ Quiescent
    /\ isPlaying
    /\ transport.state = "started"
    /\ synths = << >>
    /\ voices # {}

\* C18: after the component has unmounted no live voice and no registration
\* exists.
C18_TeardownFinal ==
    ~mounted => (Live = {} /\ events = {})

\* C19: while download is enabled (isBeatReady) a midiUrl exists and is the
\* artifact of the generation whose registrations are installed; a download
\* hands back that midiUrl.
C19_DownloadArtifact ==
    /\ (mounted /\ isBeatReady) =>
         (midiUrl # 0 /\ \A e \in events : e.gen = midiUrl)
    /\ lastOp.op = "download" => (lastOp.gen = midiUrl /\ midiUrl # 0)
====
